---------------------------- MODULE Spec2Model ----------------------------
(***************************************************************************)
(* A model of SyDthon's MP3 -> SID converter (src/mp3_to_sid.py).          *)
(*                                                                         *)
(* State: the arguments of one conversion (chip, the pitch track the       *)
(* pitch extractor returned), the list of SID words computed so far, the   *)
(* open file object's buffer, the destination path on disk, and the        *)
(* position of the run in convert_mp3_to_sid.                              *)
(*                                                                         *)
(* Frequencies are floats in the program.  A finite frequency is modelled  *)
(* exactly, as an integer count n of 1/2^FracBits Hz; NaN, +inf and -inf   *)
(* are values of their own.  The quantizer's arithmetic is modelled at the *)
(* width NumPy gives it: float32 (NumPy >= 2 keeps the pitch track's       *)
(* float32) or float64 (NumPy 1.x promotes float32 * int to float64; a     *)
(* direct call with a Python float is float64 too).                        *)
(***************************************************************************)
EXTENDS Integers, Sequences, FiniteSets, TLC

(***************************************************************************)
(* Bounds of the model.                                                    *)
(***************************************************************************)
\* Longest pitch track the pitch extractor returns.
MaxFrames == 2
\* Resolution of the finite frequencies: n counts 1/2^FracBits Hz.
FracBits == 4

(***************************************************************************)
(* Constants of the program.                                               *)
(***************************************************************************)
\* SID_CLOCKS['6581'] and SID_CLOCKS['8580'].
Clock6581 == 985248
Clock8580 == 1022730
\* freq * (1 << 24) / clock
AccBits == 24
\* & 0xFFFF keeps the value modulo 2^16.
WordModulus == 65536
\* The data offset the header declares: struct.pack('>H', 0x007C).
DeclaredDataOffset == 124
\* Load and init address 0x1000, play address 0x1003.
LoadAddress == 4096
InitAddress == 4096
PlayAddress == 4099
\* Version 2, start song 1.
PsidVersion == 2
StartSong == 1
\* Each metadata string occupies 32 bytes.
FieldSize == 32
\* convert_mp3_to_sid passes song_length=1.
PipelineSongLength == 1

SID_CLOCKS == [c \in {"6581", "8580"} |->
                 IF c = "6581" THEN Clock6581 ELSE Clock8580]

\* The chip identifiers a caller passes: the two known ones and an unknown one.
Chips == {"6581", "8580", "unknown123"}

\* The width of the quantizer's float arithmetic.
DTypes == {"float32", "float64"}

(***************************************************************************)
(* Arithmetic helpers.                                                     *)
(***************************************************************************)
RECURSIVE Pow2(_)
Pow2(k) == IF k <= 0 THEN 1 ELSE 2 * Pow2(k - 1)

\* Round q + r/d (0 <= r < d) to the nearest integer, ties to even: np.round.
RoundHalfEven(q, r, d) ==
    IF 2 * r > d \/ (2 * r = d /\ q % 2 = 1) THEN q + 1 ELSE q

\* <<floor(n * 2^s / c), (n * 2^s) mod c>> from <<q, r>> = <<n div c, n mod c>>,
\* one doubling at a time so that no intermediate exceeds 2 * c.
RECURSIVE ScaleQuotient(_, _, _, _)
ScaleQuotient(q, r, c, s) ==
    IF s <= 0 THEN <<q, r>>
    ELSE ScaleQuotient(2 * q + (2 * r) \div c, (2 * r) % c, c, s - 1)

\* Doubles <<q, r>> until q has 24 significant bits (a float32 mantissa:
\* q >= 2^23); returns <<q, r, t>>, t the number of doublings:
\* q = floor(n * 2^t / c).
RECURSIVE Normalise(_, _, _, _)
Normalise(q, r, c, t) ==
    IF q >= 8388608 THEN <<q, r, t>>
    ELSE Normalise(2 * q + (2 * r) \div c, (2 * r) % c, c, t + 1)

(***************************************************************************)
(* Frequencies.                                                            *)
(***************************************************************************)
Fin(hz, frac) == [kind |-> "fin", n |-> hz * Pow2(FracBits) + frac]
NaN    == [kind |-> "nan", n |-> 0]
PosInf == [kind |-> "posinf", n |-> 0]
NegInf == [kind |-> "neginf", n |-> 0]

\* The pitch estimates of the model: invalid ones (negative, non-finite), zero,
\* and positive ones below, at and above the 16-bit wrap point of each chip
\* (3848.625 Hz for the 6581, 3995.04 Hz for the 8580).  At 373.875 Hz the
\* float32 and the float64 arithmetic give different words.
Freqs == { NaN, PosInf, NegInf, Fin(-440, 0), Fin(0, 0),
           Fin(0, 1), Fin(373, 14), Fin(440, 0), Fin(2000, 0),
           Fin(3848, 8), Fin(3848, 10), Fin(3995, 0), Fin(3996, 0) }

\* freq <= 0 as Python evaluates it: false for NaN, true for -inf.
LeqZero(f) ==
    \/ f.kind = "neginf"
    \/ f.kind = "fin" /\ f.n <= 0

(***************************************************************************)
(* freq_to_sid_value                                                       *)
(***************************************************************************)
\* A lookup whose fallback is the other profile.
ClockOf_FallbackNtsc(chip) ==
    IF chip \in DOMAIN SID_CLOCKS THEN SID_CLOCKS[chip] ELSE SID_CLOCKS["8580"]

\* SID_CLOCKS.get(chip, SID_CLOCKS['6581'])
ClockOf(chip) ==
    IF chip \in DOMAIN SID_CLOCKS THEN SID_CLOCKS[chip] ELSE SID_CLOCKS["6581"]

\* int(np.round(freq * (1 << 24) / clock)) in float64, for a finite freq > 0.
\* The product is exact.  The quotient x = N / clock is rounded to 53 bits;
\* x is either a tie exactly (then representable, and kept) or at least
\* 1 / (2 * clock) > 2^-22 away from one, more than the rounding moves it, so
\* np.round of the float64 quotient is np.round of the exact one.
Round64(n, clock) ==
    LET qr == ScaleQuotient(n \div clock, n % clock, clock, AccBits - FracBits)
    IN  RoundHalfEven(qr[1], qr[2], clock)

\* The same in float32: the quotient is first rounded to a 24-bit mantissa m
\* (ties to even), giving m / 2^k, which np.round then rounds to an integer.
Round32(n, clock) ==
    LET nrm == Normalise(n \div clock, n % clock, clock, 0)
        m   == RoundHalfEven(nrm[1], nrm[2], clock)
        k   == nrm[3] - (AccBits - FracBits)
    IN  IF k <= 0 THEN m * Pow2(-k)
        ELSE IF k > 24 THEN 0
        ELSE RoundHalfEven(m \div Pow2(k), m % Pow2(k), Pow2(k))

\* int(np.round(freq * (1 << 24) / clock)), before the mask.
SidRound(f, clock, dtype) ==
    IF dtype = "float32" THEN Round32(f.n, clock) ELSE Round64(f.n, clock)

\* freq_to_sid_value without its freq <= 0 guard: a negative frequency is
\* rounded and masked like any other (round(-x) = -round(x)), and int() raises
\* on -inf as it does on +inf.
freq_to_sid_value_NoGuard(f, chip, dtype) ==
    IF f.kind = "nan" THEN [err |-> "ValueError", value |-> 0]
    ELSE IF f.kind # "fin" THEN [err |-> "OverflowError", value |-> 0]
    ELSE IF f.n = 0 THEN [err |-> "none", value |-> 0]
    ELSE IF f.n < 0
    THEN [err |-> "none",
          value |-> (0 - SidRound([f EXCEPT !.n = 0 - f.n], ClockOf(chip), dtype))
                    % WordModulus]
    ELSE [err |-> "none",
          value |-> SidRound(f, ClockOf(chip), dtype) % WordModulus]

\* freq_to_sid_value with the mask 0x0FFF in place of 0xFFFF.
freq_to_sid_value_Mask12(f, chip, dtype) ==
    IF LeqZero(f) THEN [err |-> "none", value |-> 0]
    ELSE IF f.kind = "nan" THEN [err |-> "ValueError", value |-> 0]
    ELSE IF f.kind # "fin" THEN [err |-> "OverflowError", value |-> 0]
    ELSE [err |-> "none",
          value |-> SidRound(f, ClockOf(chip), dtype) % 4096]

\* The outcome of freq_to_sid_value(freq, chip): the value returned, or the
\* exception int() raises on a NaN (ValueError) or an infinity (OverflowError).
freq_to_sid_value(f, chip, dtype) ==
    IF LeqZero(f) THEN [err |-> "none", value |-> 0]
    ELSE IF f.kind = "nan" THEN [err |-> "ValueError", value |-> 0]
    ELSE IF f.kind # "fin" THEN [err |-> "OverflowError", value |-> 0]
    ELSE [err |-> "none",
          value |-> SidRound(f, ClockOf(chip), dtype) % WordModulus]


\* The pitch tracks extract_pitch_track may return, in frame order.
RECURSIVE TracksOfLen(_)
TracksOfLen(k) ==
    IF k = 0 THEN { <<>> }
    ELSE { Append(t, f) : t \in TracksOfLen(k - 1), f \in Freqs }

Tracks == UNION { TracksOfLen(k) : k \in 0..MaxFrames }

(***************************************************************************)
(* write_sid_header                                                        *)
(***************************************************************************)
\* b'PSID'
Magic == <<80, 83, 73, 68>>

\* "MP3->SID Converter", "Maurizio Ruscio", "2025" as ASCII codes.
Title    == <<77, 80, 51, 45, 62, 83, 73, 68, 32,
              67, 111, 110, 118, 101, 114, 116, 101, 114>>
Author   == <<77, 97, 117, 114, 105, 122, 105, 111, 32,
              82, 117, 115, 99, 105, 111>>
Released == <<50, 48, 50, 53>>

Zeros(k) == [i \in 1..k |-> 0]

\* struct.pack('<H', v): the little-endian slip.
pack_H_LittleEndian(v) ==
    IF v \in 0..65535
    THEN [err |-> "none", bytes |-> <<v % 256, v \div 256>>]
    ELSE [err |-> "struct.error", bytes |-> <<>>]

\* struct.pack('>H', v): two bytes, most significant first; struct.error when
\* v does not fit an unsigned 16-bit field.
pack_H(v) ==
    IF v \in 0..65535
    THEN [err |-> "none", bytes |-> <<v \div 256, v % 256>>]
    ELSE [err |-> "struct.error", bytes |-> <<>>]

\* flags = 0; if chip == '6581': flags |= 1; if chip == '8580': flags |= 2
HeaderFlags(chip) ==
    (IF chip = "6581" THEN 1 ELSE 0) + (IF chip = "8580" THEN 2 ELSE 0)

\* data = text.encode('ascii')[:32]; data + b'\x00' * (32 - len(data))
PadField(text) ==
    LET data == SubSeq(text, 1, IF Len(text) < FieldSize THEN Len(text)
                                                         ELSE FieldSize)
    IN  data \o Zeros(FieldSize - Len(data))

\* The number of f.write calls of write_sid_header.
NumHeaderWrites == 13

\* The i-th f.write of write_sid_header(f, song_length, chip): the bytes it
\* writes, or the exception evaluating its argument raises.
HeaderWrite(i, songs, c) ==
    CASE i = 1  -> [err |-> "none", bytes |-> Magic]
      [] i = 2  -> pack_H(PsidVersion)
      [] i = 3  -> pack_H(DeclaredDataOffset)
      [] i = 4  -> pack_H(LoadAddress)
      [] i = 5  -> pack_H(InitAddress)
      [] i = 6  -> pack_H(PlayAddress)
      [] i = 7  -> pack_H(songs)
      [] i = 8  -> pack_H(StartSong)
      [] i = 9  -> pack_H(HeaderFlags(c))
      [] i = 10 -> [err |-> "none", bytes |-> <<0, 0>>]
      [] i = 11 -> [err |-> "none", bytes |-> PadField(Title)]
      [] i = 12 -> [err |-> "none", bytes |-> PadField(Author)]
      [] i = 13 -> [err |-> "none", bytes |-> PadField(Released)]

\* Everything write_sid_header writes when no write raises.
RECURSIVE HeaderBytes(_, _, _)
HeaderBytes(i, songs, c) ==
    IF i = 0 THEN <<>>
    ELSE HeaderBytes(i - 1, songs, c) \o HeaderWrite(i, songs, c).bytes

(***************************************************************************)
(* The destination path.                                                   *)
(***************************************************************************)
NoFile == [exists |-> FALSE, data |-> <<>>]
FileOf(bytes) == [exists |-> TRUE, data |-> bytes]

\* What an earlier, completed conversion left at the destination path.
PriorFile == FileOf(HeaderBytes(NumHeaderWrites, PipelineSongLength, "8580"))

\* The song counts a direct caller of write_sid_header passes.
SongLengths == {-1, 0, 1, 2, 255, 256, 65535, 65536}

VARIABLES
    entry,        \* the function called: convert_mp3_to_sid or write_sid_header
    chip,         \* the chip argument
    dtype,        \* the float width of the quantizer's arithmetic
    song_length,  \* write_sid_header's song_length argument
    wav,          \* whether convert_mp3_to_wav has exported the WAV file
    pitch_track,  \* the frequencies extract_pitch_track returned
    sid_values,   \* the list comprehension's result so far
    pc,           \* the position of the run
    err,          \* the exception that ended the run, "none" otherwise
    hstep,        \* the next f.write of write_sid_header
    buf,          \* the bytes written to the file object and not yet flushed
    disk,         \* the destination path
    prior         \* the destination path as the run found it

vars == <<entry, chip, dtype, song_length, wav, pitch_track, sid_values,
          pc, err, hstep, buf, disk, prior>>

\* A call convert_mp3_to_sid(mp3_path, sid_path, chip).
Init ==
    /\ entry = "convert_mp3_to_sid"
    /\ chip \in Chips
    /\ dtype \in DTypes
    /\ song_length = PipelineSongLength
    /\ wav = FALSE
    /\ pitch_track = <<>>
    /\ sid_values = <<>>
    /\ pc = "start"
    /\ err = "none"
    /\ hstep = 1
    /\ buf = <<>>
    /\ disk \in {NoFile, PriorFile}
    /\ prior = disk

\* A call write_sid_header(f, song_length, chip) on a freshly opened f.
HeaderInit ==
    /\ entry = "write_sid_header"
    /\ chip \in Chips
    /\ dtype = "float64"
    /\ song_length \in SongLengths
    /\ wav = FALSE
    /\ pitch_track = <<>>
    /\ sid_values = <<>>
    /\ pc = "header"
    /\ err = "none"
    /\ hstep = 1
    /\ buf = <<>>
    /\ disk = NoFile
    /\ prior = disk

\* The file object is open inside the with block of convert_mp3_to_sid.
FileOpen == entry = "convert_mp3_to_sid" /\ pc = "header"

\* Leaving the with block closes the file, which flushes its buffer.
Flushed == IF FileOpen THEN FileOf(buf) ELSE disk

\* convert_mp3_to_wav(mp3_path, wav_path): exports the WAV, or raises when the
\* MP3 cannot be read or decoded.
ConvertWav ==
    /\ pc = "start"
    /\ \/ /\ wav' = TRUE
          /\ pc' = "extract"
          /\ err' = err
       \/ /\ wav' = wav
          /\ pc' = "failed"
          /\ err' = "DecodeError"
    /\ UNCHANGED <<entry, chip, dtype, song_length, pitch_track, sid_values,
                   hstep, buf, disk, prior>>

\* pitch_track, times = extract_pitch_track(wav_path)
ExtractPitch ==
    /\ pc = "extract"
    /\ pitch_track' \in Tracks
    /\ pc' = "quantize"
    /\ UNCHANGED <<entry, chip, dtype, song_length, wav, sid_values, err,
                   hstep, buf, disk, prior>>

\* One element of [freq_to_sid_value(freq, chip) for freq in pitch_track].
QuantizeFrame ==
    /\ pc = "quantize"
    /\ Len(sid_values) < Len(pitch_track)
    /\ LET r == freq_to_sid_value(pitch_track[Len(sid_values) + 1], chip, dtype)
       IN  IF r.err = "none"
           THEN /\ sid_values' = Append(sid_values, r.value)
                /\ UNCHANGED <<pc, err>>
           ELSE /\ pc' = "failed"
                /\ err' = r.err
                /\ UNCHANGED sid_values
    /\ UNCHANGED <<entry, chip, dtype, song_length, wav, pitch_track,
                   hstep, buf, disk, prior>>

\* open(sid_path, 'wb'): creates the file or truncates it to no bytes; raises
\* OSError, leaving the path alone, when it cannot.
OpenFile ==
    /\ pc = "quantize"
    /\ Len(sid_values) = Len(pitch_track)
    /\ \/ /\ disk' = FileOf(<<>>)
          /\ pc' = "header"
          /\ err' = err
       \/ /\ disk' = disk
          /\ pc' = "failed"
          /\ err' = "OSError"
    /\ hstep' = 1
    /\ buf' = <<>>
    /\ UNCHANGED <<entry, chip, dtype, song_length, wav, pitch_track,
                   sid_values, prior>>

\* One f.write of write_sid_header.  The bytes go to the file object's buffer
\* (the header is far smaller than the buffer).  An exception leaves
\* write_sid_header and, in convert_mp3_to_sid, the with block.
WriteHeaderField ==
    /\ pc = "header"
    /\ hstep <= NumHeaderWrites
    /\ LET w == HeaderWrite(hstep, song_length, chip)
       IN  IF w.err = "none"
           THEN /\ buf' = buf \o w.bytes
                /\ hstep' = hstep + 1
                /\ UNCHANGED <<pc, err, disk>>
           ELSE /\ pc' = "failed"
                /\ err' = w.err
                /\ disk' = Flushed
                /\ UNCHANGED <<buf, hstep>>
    /\ UNCHANGED <<entry, chip, dtype, song_length, wav, pitch_track,
                   sid_values, prior>>

\* The end of the with block, after write_sid_header returned: the file is
\* closed and its buffer flushed; then the final print.  When the flush cannot
\* write (disk full), OSError is raised and the file keeps no bytes.
CloseFile ==
    /\ FileOpen
    /\ hstep = NumHeaderWrites + 1
    /\ \/ /\ disk' = FileOf(buf)
          /\ pc' = "done"
          /\ err' = err
       \/ /\ disk' = disk
          /\ pc' = "failed"
          /\ err' = "OSError"
    /\ UNCHANGED <<entry, chip, dtype, song_length, wav, pitch_track,
                   sid_values, hstep, buf, prior>>

Running == entry = "convert_mp3_to_sid"
           /\ pc \in {"start", "extract", "quantize", "header"}

\* KeyboardInterrupt raised where the run stands: the exception unwinds
\* convert_mp3_to_sid, and an open with block closes (and flushes) the file.
Interrupt ==
    /\ Running
    /\ pc' = "failed"
    /\ err' = "KeyboardInterrupt"
    /\ disk' = Flushed
    /\ UNCHANGED <<entry, chip, dtype, song_length, wav, pitch_track,
                   sid_values, hstep, buf, prior>>

\* The process is killed where the run stands: nothing is flushed.
Kill ==
    /\ Running
    /\ pc' = "killed"
    /\ UNCHANGED <<entry, chip, dtype, song_length, wav, pitch_track,
                   sid_values, err, hstep, buf, disk, prior>>

Next ==
    \/ ConvertWav
    \/ ExtractPitch
    \/ QuantizeFrame
    \/ OpenFile
    \/ WriteHeaderField
    \/ CloseFile
    \/ Interrupt
    \/ Kill

Spec == Init /\ [][Next]_vars

\* write_sid_header called on its own.
HeaderNext == WriteHeaderField

HeaderSpec == HeaderInit /\ [][HeaderNext]_vars

(***************************************************************************)
(* Reading a written header back, and the layout the specification states. *)
(***************************************************************************)
\* The big-endian unsigned 16-bit field at byte offset off.
ReadU16BE(bytes, off) == bytes[off + 1] * 256 + bytes[off + 2]

\* A fixed-width string field without its trailing NUL padding.
RECURSIVE StripNul(_)
StripNul(field) ==
    IF field # <<>> /\ field[Len(field)] = 0
    THEN StripNul(SubSeq(field, 1, Len(field) - 1))
    ELSE field

\* The k-th (0-based) 32-byte string field after the 22 bytes of fixed fields.
StringField(bytes, k) == SubSeq(bytes, 22 + 32 * k + 1, 22 + 32 * k + 32)

\* The 16-bit words of a list as raw little-endian bytes.
RECURSIVE WordsLE(_)
WordsLE(ws) ==
    IF ws = <<>> THEN <<>>
    ELSE <<ws[1] % 256, ws[1] \div 256>> \o WordsLE(Tail(ws))

\* write_sid_header has made all its writes and returned.
HeaderWritten == pc = "header" /\ hstep = NumHeaderWrites + 1

\* A pitch estimate that is negative or not finite.
InvalidEstimate(f) == f.kind # "fin" \/ f.n < 0

\* The run ended because quantizing frame i raised.
QuantizeRaisedAt(i) ==
    /\ pc = "failed"
    /\ err \in {"ValueError", "OverflowError"}
    /\ i = Len(sid_values) + 1

(***************************************************************************)
(* C1.  The header write_sid_header serializes is exactly 124 bytes long,  *)
(* and the data-offset field it wrote equals the number of bytes the       *)
(* header occupies.  The code writes 118 bytes and declares 124.           *)
(***************************************************************************)
C1_HeaderLengthIsDataOffset ==
    HeaderWritten =>
        /\ Len(buf) = 124
        /\ ReadU16BE(buf, 6) = Len(buf)

(***************************************************************************)
(* C2.  When convert_mp3_to_sid fails or is interrupted, the destination   *)
(* path holds what it held before the run (nothing, or the prior file),    *)
(* never a truncated or partial file.  The code opens the path with 'wb'   *)
(* and writes in place.                                                    *)
(***************************************************************************)
C2_FailureKeepsPriorFile ==
    pc \in {"failed", "killed"} => disk = prior

(***************************************************************************)
(* C3.  After a successful conversion the file is the header, then the     *)
(* driver code bytes, then one little-endian 16-bit word per pitch frame   *)
(* in frame order.  The code writes the header only.                       *)
(***************************************************************************)
C3_FileIsHeaderDriverStream ==
    pc = "done" =>
        LET header == HeaderBytes(NumHeaderWrites, song_length, chip)
            stream == WordsLE(sid_values)
            n      == Len(disk.data)
        IN  /\ Len(sid_values) = Len(pitch_track)
            /\ n >= Len(header) + Len(stream)
            /\ SubSeq(disk.data, 1, Len(header)) = header
            /\ SubSeq(disk.data, n - Len(stream) + 1, n) = stream

(***************************************************************************)
(* C4.  Whenever the declared data offset differs from the length of the   *)
(* serialized header, the write fails before any byte is written: no byte  *)
(* reaches the file object, the conversion does not succeed, and the       *)
(* destination file does not exist.  The code makes no such check.         *)
(***************************************************************************)
C4_OffsetMismatchWritesNothing ==
    (/\ entry = "convert_mp3_to_sid"
     /\ DeclaredDataOffset
          # Len(HeaderBytes(NumHeaderWrites, song_length, chip)))
    => /\ buf = <<>>
       /\ pc # "done"
       /\ ~prior.exists => ~disk.exists

(***************************************************************************)
(* C5.  Every frequency f <= 0 (-inf included), under every chip           *)
(* identifier, is quantized to the word 0 and raises nothing.              *)
(***************************************************************************)
C5_NonPositiveIsSilence ==
    \A i \in 1..Len(pitch_track) :
        LET f == pitch_track[i]
        IN  (f.kind = "neginf" \/ (f.kind = "fin" /\ f.n <= 0)) =>
                /\ i <= Len(sid_values) => sid_values[i] = 0
                /\ ~QuantizeRaisedAt(i)

C5_Witness ==
    /\ Len(sid_values) = 2
    /\ pitch_track[1] = NegInf
    /\ pitch_track[2] = Fin(-440, 0)
    /\ sid_values = <<0, 0>>
    /\ chip = "unknown123"

C7_MonotoneBelowWrap ==
    chip \in {"6581", "8580"} =>
        \A i, j \in 1..Len(sid_values) :
            LET f1 == pitch_track[i]
                f2 == pitch_track[j]
            IN  (/\ f1.kind = "fin" /\ f2.kind = "fin"
                 /\ 0 < f1.n /\ f1.n <= f2.n
                 /\ 2 * f2.n < SID_CLOCKS[chip] * Pow2(FracBits)
                 /\ SidRound(f2, SID_CLOCKS[chip], dtype) <= 65535)
                => sid_values[i] <= sid_values[j]

C7_Witness ==
    /\ chip = "8580"
    /\ dtype = "float32"
    /\ Len(sid_values) = 2
    /\ pitch_track = <<Fin(373, 14), Fin(3995, 0)>>
    /\ sid_values[1] < sid_values[2]
    /\ sid_values[2] = 65535

(***************************************************************************)
(* C8.  Reading a written header back with big-endian 16-bit fields gives  *)
(* the values written: magic 'PSID', version 2, data offset 124, load      *)
(* 0x1000, init 0x1000, play 0x1003, the song count passed, start song 1,  *)
(* the flags, reserved 0, and three strings of exactly 32 bytes each, the  *)
(* ASCII text followed by NUL padding.                                     *)
(***************************************************************************)
C8_HeaderRoundTrip ==
    HeaderWritten =>
        /\ SubSeq(buf, 1, 4) = <<80, 83, 73, 68>>
        /\ ReadU16BE(buf, 4) = 2
        /\ ReadU16BE(buf, 6) = 124
        /\ ReadU16BE(buf, 8) = 4096
        /\ ReadU16BE(buf, 10) = 4096
        /\ ReadU16BE(buf, 12) = 4099
        /\ ReadU16BE(buf, 14) = song_length
        /\ ReadU16BE(buf, 16) = 1
        /\ ReadU16BE(buf, 18) = (CASE chip = "6581" -> 1
                                   [] chip = "8580" -> 2
                                   [] OTHER -> 0)
        /\ ReadU16BE(buf, 20) = 0
        /\ Len(buf) = 22 + 3 * 32
        /\ StripNul(StringField(buf, 0)) = Title
        /\ StripNul(StringField(buf, 1)) = Author
        /\ StripNul(StringField(buf, 2)) = Released
        /\ \A i \in 23..Len(buf) : buf[i] \in 0..127

C8_Witness ==
    /\ HeaderWritten
    /\ entry = "write_sid_header"
    /\ song_length = 65535
    /\ chip = "8580"
    /\ ReadU16BE(buf, 14) = 65535
    /\ StringField(buf, 2) = <<50, 48, 50, 53>> \o Zeros(28)

(***************************************************************************)
(* C9.  Every pitch estimate that is negative or non-finite (NaN, +inf,    *)
(* -inf) yields the word 0, and the conversion raises nothing because of   *)
(* it.  The code passes the estimates to freq_to_sid_value as they are:    *)
(* int() raises on NaN and on +inf.                                        *)
(***************************************************************************)
C9_InvalidEstimatesBecomeZero ==
    \A i \in 1..Len(pitch_track) :
        InvalidEstimate(pitch_track[i]) =>
            /\ i <= Len(sid_values) => sid_values[i] = 0
            /\ ~QuantizeRaisedAt(i)

(***************************************************************************)
(* C10.  The PAL/NTSC flags written in the header are those of the profile *)
(* whose clock the quantizer uses for the same chip identifier: 1 with the *)
(* 6581 clock, 2 with the 8580 clock; so an unknown identifier, quantized  *)
(* with the default clock, gets the flags 1.  The code writes 0 for it.    *)
(***************************************************************************)
C10_FlagsMatchQuantizerClock ==
    (entry = "convert_mp3_to_sid" /\ pc \in {"header", "done"} /\ hstep > 9)
    => ReadU16BE(buf, 18) = (IF ClockOf(chip) = 985248 THEN 1 ELSE 2)

=============================================================================
